---- MODULE Spec2Model ----
(***************************************************************************)
(* Telemetry distribution of the system monitoring app.                    *)
(*                                                                         *)
(* Server side (server/src/utils/monitor.js): the registry of connected    *)
(* WebSocket channels, the per-channel subscribed flag, the 5 s broadcast  *)
(* timer, the asynchronous broadcast (collectors awaited, then the push)   *)
(* and the on-demand update.                                               *)
(*                                                                         *)
(* Client side (useWebSocket hook): the socket reference, the retry timer, *)
(* the retry counter and the connected flag.                               *)
(*                                                                         *)
(* Spec        : the server with arbitrary WebSocket clients; the          *)
(*               collectors succeed.                                       *)
(* SnapshotSpec: the server with collectors that may fail.                 *)
(* OverlapSpec : Spec with one more broadcast allowed in flight.           *)
(* DemandSpec  : Spec with on-demand updates and no overlapping ticks.     *)
(* MessageSpec : the server with the client messages it handles noted.     *)
(* TimerSpec   : the server started again and stopped by its host.         *)
(* ListingSpec : getProcessList on the outputs of the listing commands.    *)
(* SortSpec    : the sort and truncation of parsed processes.              *)
(* SampleSpec  : getMemoryUsage and getCPUUsage on the readings of the OS. *)
(* ClientSpec  : one useWebSocket hook with its callers and the network.   *)
(* RetrySpec   : the hook left to the network (no caller acts).            *)
(* SessionSpec : the hook, mounted and unmounted, connected to the server. *)
(***************************************************************************)
EXTENDS Integers, Sequences, FiniteSets, TLC

\* ---------------------------------------------------------------- bounds
MaxChannels == 2        \* connections accepted by the server under Spec
MaxInFlight == 1        \* broadcasts awaiting their collectors at a time (one more under OverlapSpec)
MaxSockets == 7         \* sockets the hook creates under RetrySpec
MaxClientSockets == 3   \* sockets the hook creates under ClientSpec
MaxSessionSockets == 2  \* sockets the hook creates under SessionSpec
MaxIntervals == 3       \* setInterval calls under TimerSpec
MaxLines == 2           \* lines after the header of a listing under ListingSpec
MaxBatch == 3           \* parsed processes sorted under SortSpec
MaxLimit == 3           \* limit under SortSpec
MaxSent == 2            \* frames the hook sends on one socket under ClientSpec
MaxQuarters == 12       \* quarters of a megabyte in a byte counter under SampleSpec
MaxCores == 2           \* cores read under SampleSpec
MaxTicks == 2           \* ticks a counter of a core advances between two readings

\* ------------------------------------------------------ program constants
CONNECTING == 0         \* WebSocket.readyState values
OPEN == 1
CLOSING == 2
CLOSED == 3
maxReconnectAttempts == 5

VARIABLES
    connectedClients,   \* the registry: a Set, kept in insertion order
    wsState,            \* server-side socket objects: id -> [readyState, subscribed,
                        \*   ended, greeted, first], ended recording that its close
                        \*   or error handler has run, greeted how many connected
                        \*   messages it was sent, and first the type of the first
                        \*   message it was sent ("none": nothing yet)
    inflight,           \* broadcasts suspended at their await, oldest tick first:
                        \*   [subscribedClients, overtaken], overtaken being the captured
                        \*   clients that were sent the snapshot of a later tick meanwhile
    pendingUpdates,     \* channels with an on-demand update suspended at its await
    invoked,            \* what the handler that ran last did: the collectors it invoked,
    lastPush,           \*   the broadcast it completed (NoPush: none),
    lastDirect          \*   the on-demand update it completed (NoDirect: none)

VARIABLES
    sockets,            \* the WebSocket objects the hook created, in creation order:
                        \*   [readyState, opened, sent, received], sent being the frames
                        \*   the hook sent on it and received how many of them the
                        \*   server has handled
    wsRef,              \* wsRef.current: a socket, or 0 for null
    reconnectTimeoutRef, \* reconnectTimeoutRef.current: a timer handle, or 0 for null
    pendingTimers,      \* the retry timers set and neither fired nor cleared; the
                        \*   handle of a timer is the socket whose close set it
    reconnectAttempts,  \* reconnectAttempts.current
    connected,          \* the connected state of the hook
    mounted             \* "init" before the effect ran, "mounted", "unmounted"

VARIABLES
    monitoringInterval, \* the handle of the broadcast interval, or 0 for null
    activeIntervals,    \* the interval timers set and not cleared
    intervalsCreated    \* how many setInterval calls there have been; the handle
                        \*   of an interval is its number

VARIABLES
    lastMessage         \* the client message handled last, under MessageSpec:
                        \*   [ws, raw], or NoMessage

VARIABLES
    listingInput,       \* the arguments and command outcomes of the listing function
                        \*   under study, or NoInput
    listingResult       \* what it returned, or NotRun

serverVars == <<connectedClients, wsState, inflight, pendingUpdates,
                invoked, lastPush, lastDirect>>

clientVars == <<sockets, wsRef, reconnectTimeoutRef, pendingTimers,
                reconnectAttempts, connected, mounted>>

timerVars == <<monitoringInterval, activeIntervals, intervalsCreated>>

listingVars == <<listingInput, listingResult>>

vars == <<serverVars, clientVars, timerVars, listingVars, lastMessage>>

\* What the handlers of the server, and those of the hook, leave alone.
besidesServer == <<clientVars, timerVars, listingVars, lastMessage>>

besidesClient == <<serverVars, timerVars, listingVars, lastMessage>>

\* ---------------------------------------------------------------- helpers
Range(s) == {s[i] : i \in DOMAIN s}

Remove(s, x) == SelectSeq(s, LAMBDA y : y # x)

NoPush == [done |-> FALSE, clients |-> <<>>, overtaken |-> {}, sent |-> <<>>, failed |-> {}]

NoDirect == [ws |-> 0, sent |-> FALSE, threw |-> FALSE, data |-> [type |-> "none"]]

NoMessage == [ws |-> 0, raw |-> "none"]

NoCalls == [by |-> "none", cpu |-> 0, memory |-> 0, processes |-> 0]

\* The handler was the interval callback and it invoked no collector.
IdleTick == [by |-> "tick", cpu |-> 0, memory |-> 0, processes |-> 0]

\* A Set.add: appends unless already present (insertion order is kept).
SetAdd(s, x) == IF x \in Range(s) THEN s ELSE Append(s, x)

\* ------------------------------------------------------- client messages
\* Frames a client can put on the wire, and what JSON.parse makes of them.
RawMessages == {"{type:subscribe}", "{type:unsubscribe}", "{type:requestUpdate}",
                "{type:ping}", "null", "5", "not json"}

JSONParse(raw) ==
    CASE raw = "{type:subscribe}"     -> [ok |-> TRUE, kind |-> "object", type |-> "subscribe"]
      [] raw = "{type:unsubscribe}"   -> [ok |-> TRUE, kind |-> "object", type |-> "unsubscribe"]
      [] raw = "{type:requestUpdate}" -> [ok |-> TRUE, kind |-> "object", type |-> "requestUpdate"]
      [] raw = "{type:ping}"          -> [ok |-> TRUE, kind |-> "object", type |-> "ping"]
      [] raw = "null"                 -> [ok |-> TRUE, kind |-> "null", type |-> "undefined"]
      [] raw = "5"                    -> [ok |-> TRUE, kind |-> "number", type |-> "undefined"]
      [] OTHER                        -> [ok |-> FALSE, kind |-> "error", type |-> "undefined"]

\* The type handleClientMessage switches on, or "throw" when the message
\* handler's try block throws (a parse error, or data.type of null).
MessageType(raw) ==
    LET data == JSONParse(raw)
    IN  IF ~data.ok \/ data.kind = "null" THEN "throw" ELSE data.type

\* -------------------------------------------------------- process listing
\* Text is a sequence of one-character strings.
Digits == <<"0", "1", "2", "3", "4", "5", "6", "7", "8", "9">>

DigitValue(ch) == (CHOOSE d \in DOMAIN Digits : Digits[d] = ch) - 1

\* A JavaScript number: NaN, or an integer value.
NaN == [nan |-> TRUE, value |-> 0]

Num(n) == [nan |-> FALSE, value |-> n]

\* The longest prefix of s made of digits.
RECURSIVE DigitPrefix(_)
DigitPrefix(s) ==
    IF s = <<>> \/ Head(s) \notin Range(Digits) THEN <<>>
    ELSE <<Head(s)>> \o DigitPrefix(Tail(s))

RECURSIVE Decimal(_)
Decimal(ds) ==
    IF ds = <<>> THEN 0
    ELSE 10 * Decimal(SubSeq(ds, 1, Len(ds) - 1)) + DigitValue(ds[Len(ds)])

\* parseInt(token): an optional sign, then the leading digits; NaN when
\* there are none. What follows the digits is ignored.
ParseInt(token) ==
    LET signed == token # <<>> /\ Head(token) \in {"-", "+"}
        ds == DigitPrefix(IF signed THEN Tail(token) ELSE token)
    IN  IF ds = <<>> THEN NaN
        ELSE IF signed /\ Head(token) = "-" THEN Num(0 - Decimal(ds))
        ELSE Num(Decimal(ds))

\* Boolean(n) of a number: false for NaN and 0.
TruthyNumber(n) == ~n.nan /\ n.value # 0

\* parseFloat(token) || 0 and parseInt(token) || 0, on tokens without a
\* fraction.
OrZero(n) == IF TruthyNumber(n) THEN n.value ELSE 0

\* String.prototype.localeCompare on the names of the sample rows.
LocaleOrder == <<"", "bash", "node", "sshd">>

LocaleRank(name) == CHOOSE i \in DOMAIN LocaleOrder : LocaleOrder[i] = name

LocaleCompare(a, b) == LocaleRank(a) - LocaleRank(b)

\* a.pid - b.pid: NaN when either is NaN, which sort reads as 0.
PidDifference(a, b) == IF a.pid.nan \/ b.pid.nan THEN 0 ELSE a.pid.value - b.pid.value

\* One line of a listing, split into parts: how many parts there are, and
\* the parts in the pid, cpu, memory and name columns of its format.
\* parseUnixProcesses on one line: the record, or none (<<>>) when the
\* line is too short or process.pid is falsy.
ParseUnixLine(line, commandUsed) ==
    LET needed == IF commandUsed \in {"ps aux --sort=-%cpu", "ps aux"} THEN 11 ELSE 6
        pid == ParseInt(line.pid)
    IN  IF line.nparts >= needed /\ TruthyNumber(pid)
        THEN <<[pid |-> pid, cpu |-> OrZero(ParseInt(line.cpu)),
                memory |-> OrZero(ParseInt(line.memory)),
                name |-> IF line.name = "" THEN "unknown" ELSE line.name]>>
        ELSE <<>>

\* getWindowsProcesses on one line: a record whenever there are 5 parts.
ParseWindowsLine(line) ==
    IF line.nparts >= 5
    THEN <<[pid |-> ParseInt(line.pid), cpu |-> 0,
            memory |-> OrZero(ParseInt(line.memory)), name |-> line.name]>>
    ELSE <<>>

\* The loops over lines[1..]: the header line is skipped.
RECURSIVE ParseUnixLines(_, _)
ParseUnixLines(lines, commandUsed) ==
    IF lines = <<>> THEN <<>>
    ELSE ParseUnixLine(Head(lines), commandUsed) \o ParseUnixLines(Tail(lines), commandUsed)

RECURSIVE ParseWindowsLines(_)
ParseWindowsLines(lines) ==
    IF lines = <<>> THEN <<>>
    ELSE ParseWindowsLine(Head(lines)) \o ParseWindowsLines(Tail(lines))

\* The comparators of processes.sort.
CompareUnix(a, b, sortBy) ==
    CASE sortBy = "memory" -> b.memory - a.memory
      [] sortBy = "name"   -> LocaleCompare(a.name, b.name)
      [] sortBy = "pid"    -> PidDifference(a, b)
      [] OTHER             -> b.cpu - a.cpu

CompareWindows(a, b, sortBy) ==
    CASE sortBy = "memory" -> b.memory - a.memory
      [] sortBy = "name"   -> LocaleCompare(a.name, b.name)
      [] sortBy = "pid"    -> PidDifference(a, b)
      [] OTHER             -> b.memory - a.memory

\* The comparator of the platform's listing.
Compare(a, b, sortBy, platform) ==
    IF platform = "win32" THEN CompareWindows(a, b, sortBy) ELSE CompareUnix(a, b, sortBy)

\* Array.prototype.sort, which is stable: x goes after the elements that do
\* not compare greater than it.
RECURSIVE InsertSorted(_, _, _, _)
InsertSorted(x, sorted, sortBy, platform) ==
    IF sorted = <<>> THEN <<x>>
    ELSE IF Compare(Head(sorted), x, sortBy, platform) <= 0
         THEN <<Head(sorted)>> \o InsertSorted(x, Tail(sorted), sortBy, platform)
         ELSE <<x>> \o sorted

RECURSIVE Sort(_, _, _)
Sort(list, sortBy, platform) ==
    IF list = <<>> THEN <<>>
    ELSE InsertSorted(list[Len(list)],
                      Sort(SubSeq(list, 1, Len(list) - 1), sortBy, platform),
                      sortBy, platform)

\* Array.prototype.slice(0, limit), limit >= 0.
Slice(list, limit) == SubSeq(list, 1, IF limit < Len(list) THEN limit ELSE Len(list))

\* A listing that truncates before it sorts; C20 is checked to tell it
\* from SortAndSlice.
SliceThenSort(processes, limit, sortBy, platform) ==
    Sort(Slice(processes, limit), sortBy, platform)

\* processes.sort(...) and then processes.slice(0, limit).
SortAndSlice(processes, limit, sortBy, platform) ==
    Slice(Sort(processes, sortBy, platform), limit)

\* stdout is the sequence of the lines of the output, the header first
\* (<<>>: the empty string).
ParseUnixProcesses(stdout, limit, sortBy, commandUsed) ==
    SortAndSlice(ParseUnixLines(IF stdout = <<>> THEN <<>> ELSE Tail(stdout), commandUsed),
                 limit, sortBy, "linux")

\* The candidate commands of getUnixProcesses, in the order they are tried.
Commands == <<"ps aux --sort=-%cpu", "ps aux",
              "ps -eo pid,ppid,user,cpu,pmem,comm,args", "ps -A">>

Failed == [ok |-> FALSE, stdout |-> <<>>]

\* The for loop over the commands: outcomes[i] is what execAsync of the
\* i-th command does, [ok, stdout]. The first command that succeeds ends
\* the loop, whatever it printed.
RECURSIVE FirstSuccess(_, _)
FirstSuccess(outcomes, i) ==
    IF i > Len(Commands) THEN [stdout |-> <<>>, commandUsed |-> ""]
    ELSE IF outcomes[i].ok THEN [stdout |-> outcomes[i].stdout, commandUsed |-> Commands[i]]
    ELSE FirstSuccess(outcomes, i + 1)

\* The commands the loop runs: each one in turn, up to and including the
\* first that succeeds.
RECURSIVE Attempted(_, _)
Attempted(outcomes, i) ==
    IF i > Len(Commands) THEN <<>>
    ELSE <<Commands[i]>> \o (IF outcomes[i].ok THEN <<>> ELSE Attempted(outcomes, i + 1))

\* The columns of a line of each command: those of ps aux, those named
\* after -eo, and the PID TTY TIME CMD of ps -A.
Columns(command) ==
    CASE command \in {Commands[1], Commands[2]} ->
             <<"user", "pid", "cpu", "memory", "vsz", "rss", "tty", "stat", "start",
               "time", "name">>
      [] command = Commands[3] ->
             <<"pid", "ppid", "user", "cpu", "memory", "name", "args">>
      [] OTHER -> <<"pid", "tty", "time", "name">>

\* The tokens the command prints for a running process.
Printed(command, proc) ==
    [i \in DOMAIN Columns(command) |->
        LET column == Columns(command)[i]
        IN  IF column \in {"pid", "cpu", "memory", "name"} THEN proc[column] ELSE <<"0">>]

\* line.split(/\s+/) as parseUnixProcesses reads it: parts.length, and
\* parts[1], [2], [3], [10] of the aux format or parts[0], [3], [4], [5]
\* of the other one (undefined where the line is shorter).
ReadLine(parts, commandUsed) ==
    LET aux == commandUsed \in {Commands[1], Commands[2]}
        At(i, undefined) == IF i <= Len(parts) THEN parts[i] ELSE undefined
    IN  [nparts |-> Len(parts),
         pid    |-> At(IF aux THEN 2 ELSE 1, <<>>),
         cpu    |-> At(IF aux THEN 3 ELSE 4, <<>>),
         memory |-> At(IF aux THEN 4 ELSE 5, <<>>),
         name   |-> At(IF aux THEN 11 ELSE 6, "")]

\* getUnixProcesses: [threw, value, message].
GetUnixProcesses(outcomes, limit, sortBy) ==
    LET used == FirstSuccess(outcomes, 1)
    IN  IF used.stdout = <<>>
        THEN [threw |-> TRUE, value |-> <<>>, message |-> "No ps command succeeded"]
        ELSE [threw |-> FALSE, message |-> "",
              value |-> ParseUnixProcesses(used.stdout, limit, sortBy, used.commandUsed)]

\* getWindowsProcesses: outcomes[1] is what execAsync of tasklist does.
GetWindowsProcesses(outcomes, limit, sortBy) ==
    IF ~outcomes[1].ok
    THEN [threw |-> TRUE, value |-> <<>>, message |-> "tasklist failed"]
    ELSE [threw |-> FALSE, message |-> "",
          value |-> SortAndSlice(
              ParseWindowsLines(IF outcomes[1].stdout = <<>> THEN <<>>
                                ELSE Tail(outcomes[1].stdout)),
              limit, sortBy, "win32")]

\* The record of the monitoring process itself.
ProcessPid == 4242

FallbackList == <<[pid |-> Num(ProcessPid), cpu |-> 0, memory |-> 48, name |-> "node"]>>

\* getProcessList: the catch turns a failure into the fallback list; the
\* error goes to console.warn only.
GetProcessList(platform, outcomes, limit, sortBy) ==
    LET r == IF platform = "win32" THEN GetWindowsProcesses(outcomes, limit, sortBy)
             ELSE GetUnixProcesses(outcomes, limit, sortBy)
    IN  IF r.threw THEN FallbackList ELSE r.value

\* ------------------------------------------------------------- collectors
Null == "null"

\* Boolean(x) of Array.prototype.filter(Boolean) on a string or null.
Truthy(x) == x \notin {Null, ""}

\* Promise.allSettled outcomes of the three collectors.
CpuOutcomes ==
    {[status |-> "fulfilled", value |-> "cpuSample", message |-> Null],
     [status |-> "rejected", value |-> Null, message |-> "cpu failed"]}

MemoryOutcomes ==
    {[status |-> "fulfilled", value |-> "memorySample", message |-> Null],
     [status |-> "rejected", value |-> Null, message |-> "memory failed"]}

\* The listings of a tick: one whose first command prints two processes,
\* and one whose commands all fail.
SampleLine(pid, cpu, name) ==
    [nparts |-> 11, pid |-> pid, cpu |-> cpu, memory |-> <<"2">>, name |-> name]

SampleStdout ==
    <<[nparts |-> 11, pid |-> <<"P", "I", "D">>, cpu |-> <<"%", "C", "P", "U">>,
       memory |-> <<"%", "M", "E", "M">>, name |-> "COMMAND"],
      SampleLine(<<"1">>, <<"1", "0">>, "sshd"),
      SampleLine(<<"7">>, <<"9", "0">>, "node")>>

TickListings ==
    {<<[ok |-> TRUE, stdout |-> SampleStdout], Failed, Failed, Failed>>,
     <<Failed, Failed, Failed, Failed>>}

\* getProcessList(10, 'cpu')
TickLimit == 10

\* getProcessList catches its own failures and resolves with the fallback
\* list: its promise is never rejected.
ProcessOutcomes ==
    {[status |-> "fulfilled", message |-> Null,
      value |-> GetProcessList("linux", outcomes, TickLimit, "cpu")] : outcomes \in TickListings}

\* The updateData object of broadcastSystemUpdate.
UpdateData(cpuData, memoryData, topProcesses) ==
    [type |-> "systemUpdate",
     cpu |-> IF cpuData.status = "fulfilled" THEN cpuData.value ELSE Null,
     memory |-> IF memoryData.status = "fulfilled" THEN memoryData.value ELSE Null,
     processes |-> IF topProcesses.status = "fulfilled" THEN topProcesses.value ELSE <<>>,
     errors |-> SelectSeq(
         <<IF cpuData.status = "rejected" THEN cpuData.message ELSE Null,
           IF memoryData.status = "rejected" THEN memoryData.message ELSE Null,
           IF topProcesses.status = "rejected" THEN topProcesses.message ELSE Null>>,
         Truthy)]

\* A gathering that runs the collectors once per subscribed client; C4 is
\* checked to tell it from GatherCalls.
GatherCallsPerClient(subscribedClients) ==
    [by |-> "tick", cpu |-> Len(subscribedClients), memory |-> Len(subscribedClients),
     processes |-> Len(subscribedClients)]

\* The updateData object of sendSystemUpdate: no processes, no errors.
DirectData(cpuData, memoryData) ==
    [type |-> "systemUpdate",
     cpu |-> IF cpuData.status = "fulfilled" THEN cpuData.value ELSE Null,
     memory |-> IF memoryData.status = "fulfilled" THEN memoryData.value ELSE Null]

\* The collector invocations one broadcast makes, whatever the number of
\* subscribed clients: the single Promise.allSettled call.
GatherCalls(subscribedClients) == [by |-> "tick", cpu |-> 1, memory |-> 1, processes |-> 1]

\* An on-demand update that also lists the processes; C14 is checked to
\* tell it from DirectCalls.
DirectCallsWithProcesses == [by |-> "requestUpdate", cpu |-> 1, memory |-> 1, processes |-> 1]

\* The invocations of sendSystemUpdate: cpu and memory only.
DirectCalls == [by |-> "requestUpdate", cpu |-> 1, memory |-> 1, processes |-> 0]

\* --------------------------------------------------------------- registry
IsSubscribed(c) == wsState[c].subscribed

\* Array.from(connectedClients).filter(ws => ws.subscribed)
SubscribedClients == SelectSeq(connectedClients, IsSubscribed)

\* A send loop that a throwing send aborts; C5 is checked to tell it from
\* SendAll.
RECURSIVE SendAllAbort(_, _, _)
SendAllAbort(clients, data, F) ==
    IF clients = <<>> THEN [sent |-> <<>>, failed |-> {}]
    ELSE LET ws == Head(clients)
         IN  IF wsState[ws].readyState # OPEN THEN SendAllAbort(Tail(clients), data, F)
             ELSE IF ws \in F
                  THEN [sent |-> <<>>, failed |-> {ws}]
                  ELSE LET rest == SendAllAbort(Tail(clients), data, F)
                       IN  [sent |-> <<[ws |-> ws, data |-> data]>> \o rest.sent,
                            failed |-> rest.failed]

\* The forEach of broadcastSystemUpdate over the captured clients: a client
\* whose readyState is not OPEN is skipped; a send that throws (c \in F) is
\* caught and the client is deleted from the registry; the loop goes on.
RECURSIVE SendAll(_, _, _)
SendAll(clients, data, F) ==
    IF clients = <<>> THEN [sent |-> <<>>, failed |-> {}]
    ELSE LET ws == Head(clients)
             rest == SendAll(Tail(clients), data, F)
         IN  IF wsState[ws].readyState # OPEN THEN rest
             ELSE IF ws \in F
                  THEN [sent |-> rest.sent, failed |-> {ws} \cup rest.failed]
                  ELSE [sent |-> <<[ws |-> ws, data |-> data]>> \o rest.sent,
                        failed |-> rest.failed]

\* ---------------------------------------------------------------- actions
\* invoked, lastPush and lastDirect record what one run of a handler did.
\* They do not feed back into any handler: a run is recorded, the record is
\* cleared (Drain), and only then the next handler runs.
Idle == invoked = NoCalls /\ lastPush = NoPush /\ lastDirect = NoDirect

\* A handler that invokes no collector and sends no systemUpdate.
Quiet == invoked' = NoCalls /\ lastPush' = NoPush /\ lastDirect' = NoDirect

Drain ==
    /\ ~Idle
    /\ Quiet
    /\ UNCHANGED <<connectedClients, wsState, inflight, pendingUpdates, besidesServer>>

\* A connection handler that sends nothing; C18 is checked to tell it from
\* OnConnectionSends.
OnConnectionSendsNothing == <<>>

\* The messages the connection handler of index.js sends.
OnConnectionSends == <<"connected">>

\* The type of the first message a channel was sent, frames being sent now.
FirstSent(first, frames) == IF first = "none" /\ frames # <<>> THEN Head(frames) ELSE first

\* The socket objects after a systemUpdate was sent to the receivers.
NoteUpdates(state, receivers) ==
    [c \in DOMAIN state |->
        IF c \in receivers
        THEN [state[c] EXCEPT !.first = FirstSent(@, <<"systemUpdate">>)]
        ELSE state[c]]

\* wss.on('connection') of index.js (sends the connected message) and then
\* of startMonitoring (adds the socket to the registry).
Connection(c) ==
    /\ Idle
    /\ c \notin DOMAIN wsState
    /\ wsState' = wsState @@ (c :> [readyState |-> OPEN, subscribed |-> FALSE,
                                      ended |-> FALSE,
                                      greeted |-> Len(OnConnectionSends),
                                      first |-> FirstSent("none", OnConnectionSends)])
    /\ connectedClients' = SetAdd(connectedClients, c)
    /\ Quiet
    /\ UNCHANGED <<inflight, pendingUpdates>>

\* A flag update that reaches every channel; C28 is checked to tell it from
\* SetSubscribed.
SetSubscribedOnAll(state, ws, flag) ==
    [d \in DOMAIN state |-> [state[d] EXCEPT !.subscribed = flag]]

\* ws.subscribed = flag
SetSubscribed(state, ws, flag) == [state EXCEPT ![ws].subscribed = flag]

\* ws.on('message'): JSON.parse, then handleClientMessage.
OnMessage(c, raw) ==
    /\ Idle
    /\ c \in DOMAIN wsState
    /\ wsState[c].readyState = OPEN
    /\ LET type == MessageType(raw)
       IN  CASE type = "subscribe" ->
                  /\ wsState' = SetSubscribed(wsState, c, TRUE)
                  /\ invoked' = NoCalls
                  /\ UNCHANGED pendingUpdates
             [] type = "unsubscribe" ->
                  /\ wsState' = SetSubscribed(wsState, c, FALSE)
                  /\ invoked' = NoCalls
                  /\ UNCHANGED pendingUpdates
             [] type = "requestUpdate" ->
                  \* sendSystemUpdate up to its await (readyState is OPEN here);
                  \* one update per channel is followed at a time
                  /\ c \notin pendingUpdates
                  /\ invoked' = DirectCalls
                  /\ pendingUpdates' = pendingUpdates \cup {c}
                  /\ UNCHANGED wsState
             [] OTHER ->
                  /\ invoked' = NoCalls
                  /\ UNCHANGED <<wsState, pendingUpdates>>
    /\ lastPush' = NoPush
    /\ lastDirect' = NoDirect
    /\ UNCHANGED <<connectedClients, inflight>>

\* sendSystemUpdate after its await: updateData is built and ws.send is
\* called inside the try block. A socket that has left OPEN meanwhile
\* transmits nothing; sendThrows: ws.send throws.
SendSystemUpdateDone(ws, cpuData, memoryData, sendThrows) ==
    /\ Idle
    /\ ws \in pendingUpdates
    /\ lastDirect' = [ws |-> ws, sent |-> wsState[ws].readyState = OPEN /\ ~sendThrows,
                      threw |-> sendThrows, data |-> DirectData(cpuData, memoryData)]
    /\ wsState' = NoteUpdates(wsState, IF lastDirect'.sent THEN {ws} ELSE {})
    /\ pendingUpdates' = pendingUpdates \ {ws}
    /\ invoked' = NoCalls
    /\ lastPush' = NoPush
    /\ UNCHANGED <<connectedClients, inflight>>

\* An error handler that leaves the registry alone; C15 is checked to tell
\* it from SocketError.
SocketErrorKeepsChannel(c) ==
    /\ Idle
    /\ c \in DOMAIN wsState
    /\ wsState[c].readyState = OPEN
    /\ wsState' = [wsState EXCEPT ![c].readyState = CLOSING, ![c].ended = TRUE]
    /\ Quiet
    /\ UNCHANGED <<connectedClients, inflight, pendingUpdates>>

\* ws.on('error'): the socket is on its way down; the registry drops it.
SocketError(c) ==
    /\ Idle
    /\ c \in DOMAIN wsState
    /\ wsState[c].readyState = OPEN
    /\ wsState' = [wsState EXCEPT ![c].readyState = CLOSING, ![c].ended = TRUE]
    /\ connectedClients' = Remove(connectedClients, c)
    /\ Quiet
    /\ UNCHANGED <<inflight, pendingUpdates>>

\* The closing handshake has begun (no handler of the program runs).
BeginClose(c) ==
    /\ Idle
    /\ c \in DOMAIN wsState
    /\ wsState[c].readyState = OPEN
    /\ wsState' = [wsState EXCEPT ![c].readyState = CLOSING]
    /\ Quiet
    /\ UNCHANGED <<connectedClients, inflight, pendingUpdates>>

\* ws.on('close')
SocketClose(c) ==
    /\ Idle
    /\ c \in DOMAIN wsState
    /\ wsState[c].readyState \in {OPEN, CLOSING}
    /\ wsState' = [wsState EXCEPT ![c].readyState = CLOSED, ![c].ended = TRUE]
    /\ connectedClients' = Remove(connectedClients, c)
    /\ Quiet
    /\ UNCHANGED <<inflight, pendingUpdates>>

\* A broadcastSystemUpdate without the early return on an empty capture; C1
\* is checked to tell it from BroadcastStart.
BroadcastStartUnchecked ==
    /\ invoked' = GatherCalls(SubscribedClients)
    /\ inflight' = Append(inflight,
           [subscribedClients |-> SubscribedClients, overtaken |-> {}])

\* broadcastSystemUpdate up to its await: the subscribed clients are captured
\* and, when there are any, the collectors are started.
BroadcastStart ==
    LET subscribedClients == SubscribedClients
    IN  IF Len(subscribedClients) = 0
        THEN invoked' = IdleTick /\ UNCHANGED inflight
        ELSE /\ invoked' = GatherCalls(subscribedClients)
             /\ inflight' = Append(inflight,
                    [subscribedClients |-> subscribedClients, overtaken |-> {}])

\* The setInterval callback of startMonitoringLoop.
TimerFire ==
    /\ Idle
    /\ IF Len(connectedClients) = 0
       THEN invoked' = IdleTick /\ UNCHANGED inflight
       ELSE BroadcastStart
    /\ lastPush' = NoPush
    /\ lastDirect' = NoDirect
    /\ UNCHANGED <<connectedClients, wsState, pendingUpdates>>

\* A send loop that deletes nothing; C16 is checked to tell it from
\* DeleteFailed.
DeleteNone(registry, failed) == registry

\* connectedClients.delete(ws) in the catch of each send that threw.
DeleteFailed(registry, failed) == SelectSeq(registry, LAMBDA c : c \notin failed)

\* The clients of a completed send loop.
Receivers(sent) == {sent[i].ws : i \in DOMAIN sent}

\* broadcastSystemUpdate after its await, for the i-th oldest suspended
\* broadcast: updateData is built once and sent to the captured clients.
\* F: the clients whose send throws.
BroadcastFinish(i, cpuData, memoryData, topProcesses, F) ==
    /\ Idle
    /\ i \in DOMAIN inflight
    /\ LET t == inflight[i]
           updateData == UpdateData(cpuData, memoryData, topProcesses)
           r == SendAll(t.subscribedClients, updateData, F)
       IN  /\ F = r.failed
           /\ lastPush' = [done |-> TRUE, clients |-> t.subscribedClients,
                           overtaken |-> t.overtaken,
                           sent |-> r.sent, failed |-> r.failed]
           /\ connectedClients' = DeleteFailed(connectedClients, r.failed)
           /\ wsState' = NoteUpdates(wsState, {r.sent[k].ws : k \in DOMAIN r.sent})
           /\ inflight' = [j \in 1..(Len(inflight) - 1) |->
                             IF j < i
                             THEN [inflight[j] EXCEPT !.overtaken =
                                      @ \cup (Receivers(r.sent) \cap Range(inflight[j].subscribedClients))]
                             ELSE inflight[j + 1]]
    /\ invoked' = NoCalls
    /\ lastDirect' = NoDirect
    /\ UNCHANGED pendingUpdates

\* ------------------------------------------------------ the interval timer
\* A startMonitoringLoop that does not clear the interval it replaces; C17
\* is checked to tell it from StartMonitoringLoop.
StartMonitoringLoopNoClear ==
    /\ intervalsCreated' = intervalsCreated + 1
    /\ monitoringInterval' = intervalsCreated + 1
    /\ activeIntervals' = activeIntervals \cup {intervalsCreated + 1}

\* startMonitoringLoop: the existing interval is cleared, a new one is set.
StartMonitoringLoop ==
    /\ intervalsCreated' = intervalsCreated + 1
    /\ monitoringInterval' = intervalsCreated + 1
    /\ activeIntervals' =
           (IF monitoringInterval # 0 THEN activeIntervals \ {monitoringInterval}
            ELSE activeIntervals) \cup {intervalsCreated + 1}

StartCall == [by |-> "startMonitoring", cpu |-> 0, memory |-> 0, processes |-> 0]

StopCall == [by |-> "stopMonitoring", cpu |-> 0, memory |-> 0, processes |-> 0]

\* startMonitoring, called again on the same server.
StartMonitoring ==
    /\ Idle
    /\ StartMonitoringLoop
    /\ invoked' = StartCall
    /\ lastPush' = NoPush
    /\ lastDirect' = NoDirect
    /\ UNCHANGED <<connectedClients, wsState, inflight, pendingUpdates>>

\* stopMonitoring
StopMonitoring ==
    /\ Idle
    /\ IF monitoringInterval # 0
       THEN /\ activeIntervals' = activeIntervals \ {monitoringInterval}
            /\ monitoringInterval' = 0
       ELSE UNCHANGED <<monitoringInterval, activeIntervals>>
    /\ invoked' = StopCall
    /\ lastPush' = NoPush
    /\ lastDirect' = NoDirect
    /\ UNCHANGED <<connectedClients, wsState, inflight, pendingUpdates, intervalsCreated>>

\* ------------------------------------------------------ the client hook
\* JSON.stringify of the frames the hook sends.
JSONStringify(type) ==
    CASE type = "subscribe"     -> "{type:subscribe}"
      [] type = "unsubscribe"   -> "{type:unsubscribe}"
      [] type = "requestUpdate" -> "{type:requestUpdate}"

NewSocket == [readyState |-> CONNECTING, opened |-> FALSE, sent |-> <<>>, received |-> 0]

\* connect(): a new WebSocket is created and stored in wsRef; the socket
\* wsRef held before is neither closed nor detached from its handlers.
ConnectBody ==
    /\ sockets' = Append(sockets, NewSocket)
    /\ wsRef' = Len(sockets) + 1

\* An onopen that sends nothing; C9 is checked to tell it from OnOpenSends.
OnOpenSendsNothing == <<>>

\* A retry test that allows an attempt when the counter has reached the
\* limit; C8 is checked to tell it from ShouldRetry.
ShouldRetryInclusive(attempts) == attempts <= maxReconnectAttempts

\* The frames ws.onopen sends.
OnOpenSends == <<JSONStringify("subscribe")>>

\* The test of ws.onclose for scheduling a retry.
ShouldRetry(attempts) == attempts < maxReconnectAttempts

\* The first effect: connect() when the component mounts.
Mount ==
    /\ Idle
    /\ mounted = "init"
    /\ mounted' = "mounted"
    /\ ConnectBody
    /\ UNCHANGED <<reconnectTimeoutRef, pendingTimers, reconnectAttempts, connected>>

\* reconnect of the hook's result, which is connect itself.
Reconnect ==
    /\ Idle
    /\ mounted = "mounted"
    /\ ConnectBody
    /\ UNCHANGED <<reconnectTimeoutRef, pendingTimers, reconnectAttempts, connected, mounted>>

\* The setTimeout callback of ws.onclose: connect(). The handle stays in
\* reconnectTimeoutRef.
RetryTimerFire(t) ==
    /\ Idle
    /\ t \in pendingTimers
    /\ pendingTimers' = pendingTimers \ {t}
    /\ ConnectBody
    /\ UNCHANGED <<reconnectTimeoutRef, reconnectAttempts, connected, mounted>>

\* An onopen that leaves the retry counter as it is; C27 is checked to
\* tell it from AttemptsOnOpen.
AttemptsKeptOnOpen(attempts) == attempts

\* reconnectAttempts.current = 0 of ws.onopen.
AttemptsOnOpen(attempts) == 0

\* ws.onopen of socket s.
SocketOpened(s) ==
    /\ Idle
    /\ s \in DOMAIN sockets
    /\ sockets[s].readyState = CONNECTING
    /\ sockets' = [sockets EXCEPT ![s].readyState = OPEN, ![s].opened = TRUE,
                                  ![s].sent = @ \o OnOpenSends]
    /\ connected' = TRUE
    /\ reconnectAttempts' = AttemptsOnOpen(reconnectAttempts)
    /\ UNCHANGED <<wsRef, reconnectTimeoutRef, pendingTimers, mounted>>

\* The close event of socket s: ws.onclose (after ws.onerror, which also
\* sets connected to false, when the connection failed).
SocketClosed(s) ==
    /\ Idle
    /\ s \in DOMAIN sockets
    /\ sockets[s].readyState \in {CONNECTING, OPEN, CLOSING}
    /\ sockets' = [sockets EXCEPT ![s].readyState = CLOSED]
    /\ connected' = FALSE
    /\ wsRef' = 0
    /\ IF ShouldRetry(reconnectAttempts)
       THEN /\ reconnectAttempts' = reconnectAttempts + 1
            /\ reconnectTimeoutRef' = s
            /\ pendingTimers' = pendingTimers \cup {s}
       ELSE UNCHANGED <<reconnectAttempts, reconnectTimeoutRef, pendingTimers>>
    /\ UNCHANGED mounted

\* The cleanup of the effects when the component unmounts: disconnect(),
\* then the clearTimeout of the second effect.
Unmount ==
    /\ Idle
    /\ mounted = "mounted"
    /\ mounted' = "unmounted"
    /\ pendingTimers' = pendingTimers \ {reconnectTimeoutRef}
    /\ reconnectTimeoutRef' = 0
    /\ IF wsRef # 0
       THEN sockets' = [sockets EXCEPT
                ![wsRef].sent = IF sockets[wsRef].readyState = OPEN
                                THEN Append(@, JSONStringify("unsubscribe")) ELSE @,
                ![wsRef].readyState = IF @ \in {CONNECTING, OPEN} THEN CLOSING ELSE @]
       ELSE UNCHANGED sockets
    /\ wsRef' = 0
    /\ connected' = FALSE
    /\ UNCHANGED reconnectAttempts

\* requestUpdate of the hook's result, when it sends.
RequestUpdate ==
    /\ Idle
    /\ mounted = "mounted"
    /\ wsRef # 0
    /\ sockets[wsRef].readyState = OPEN
    /\ Len(sockets[wsRef].sent) < MaxSent
    /\ sockets' = [sockets EXCEPT ![wsRef].sent = Append(@, JSONStringify("requestUpdate"))]
    /\ UNCHANGED <<wsRef, reconnectTimeoutRef, pendingTimers, reconnectAttempts,
                   connected, mounted>>

\* ------------------------------------------------------------------ Spec
NoInput == [function |-> "none"]

NotRun == [returned |-> FALSE, value |-> <<>>]

ServerInit ==
    /\ connectedClients = <<>>
    /\ wsState = <<>>
    /\ inflight = <<>>
    /\ pendingUpdates = {}
    /\ invoked = NoCalls
    /\ lastPush = NoPush
    /\ lastDirect = NoDirect
    /\ lastMessage = NoMessage

\* index.js has called startMonitoring once.
TimerInit ==
    /\ monitoringInterval = 1
    /\ activeIntervals = {1}
    /\ intervalsCreated = 1

ClientInit ==
    /\ sockets = <<>>
    /\ wsRef = 0
    /\ reconnectTimeoutRef = 0
    /\ pendingTimers = {}
    /\ reconnectAttempts = 0
    /\ connected = FALSE
    /\ mounted = "init"

Init ==
    /\ ServerInit
    /\ TimerInit
    /\ ClientInit
    /\ listingInput = NoInput
    /\ listingResult = NotRun

\* A client connects: the next channel id.
Connect ==
    /\ Len(wsState) < MaxChannels
    /\ Connection(Len(wsState) + 1)
    /\ UNCHANGED besidesServer

\* A connected client sends a subscribe or unsubscribe frame, or one the
\* server does not understand.
Message ==
    /\ \E c \in DOMAIN wsState : \E raw \in RawMessages \ {"{type:requestUpdate}"} :
           OnMessage(c, raw)
    /\ UNCHANGED besidesServer

\* A connected client sends a requestUpdate frame.
Request ==
    /\ \E c \in DOMAIN wsState : OnMessage(c, "{type:requestUpdate}")
    /\ UNCHANGED besidesServer

Tick == Len(inflight) < MaxInFlight /\ TimerFire /\ UNCHANGED besidesServer

OverlapTick == Len(inflight) < MaxInFlight + 1 /\ TimerFire /\ UNCHANGED besidesServer

\* The collectors of a suspended broadcast settle, with outcomes among the
\* given ones, and it pushes.
CollectedWith(cpus, memories, listings) ==
    /\ \E i \in DOMAIN inflight : \E cpuData \in cpus, memoryData \in memories,
                                     topProcesses \in listings :
           \E F \in SUBSET Range(inflight[i].subscribedClients) :
               BroadcastFinish(i, cpuData, memoryData, topProcesses, F)
    /\ UNCHANGED besidesServer

\* Any outcome of each collector.
Collected == CollectedWith(CpuOutcomes, MemoryOutcomes, ProcessOutcomes)

\* Every collector succeeds.
Gathered ==
    CollectedWith({o \in CpuOutcomes : o.status = "fulfilled"},
                  {o \in MemoryOutcomes : o.status = "fulfilled"},
                  {o \in ProcessOutcomes : o.value # FallbackList})

DirectSent ==
    /\ \E ws \in pendingUpdates : \E cpuData \in CpuOutcomes, memoryData \in MemoryOutcomes,
                                      sendThrows \in BOOLEAN :
           SendSystemUpdateDone(ws, cpuData, memoryData, sendThrows)
    /\ UNCHANGED besidesServer

Errored == (\E c \in DOMAIN wsState : SocketError(c)) /\ UNCHANGED besidesServer

Closing == (\E c \in DOMAIN wsState : BeginClose(c)) /\ UNCHANGED besidesServer

Closed == (\E c \in DOMAIN wsState : SocketClose(c)) /\ UNCHANGED besidesServer

Next ==
    \/ Connect
    \/ Message
    \/ Tick
    \/ Gathered
    \/ Errored
    \/ Closing
    \/ Closed
    \/ Drain

Spec == Init /\ [][Next]_vars

\* The server with collectors that may fail.
SnapshotNext ==
    \/ Connect
    \/ Message
    \/ Tick
    \/ Collected
    \/ Closed
    \/ Drain

SnapshotSpec == Init /\ [][SnapshotNext]_vars

OverlapNext ==
    \/ Connect
    \/ Message
    \/ OverlapTick
    \/ Gathered
    \/ Errored
    \/ Closing
    \/ Closed
    \/ Drain

OverlapSpec == Init /\ [][OverlapNext]_vars

\* The timer fires when no broadcast is awaiting its collectors.
DemandTick == inflight = <<>> /\ TimerFire /\ UNCHANGED besidesServer

\* The server with clients that also ask for on-demand updates; the
\* collectors of a broadcast settle before the next tick.
DemandNext ==
    \/ Connect
    \/ Message
    \/ Request
    \/ DirectSent
    \/ DemandTick
    \/ Gathered
    \/ Errored
    \/ Closing
    \/ Closed
    \/ Drain

DemandSpec == Init /\ [][DemandNext]_vars

\* ----------------------------------------------------------- MessageSpec
\* A connected client sends a subscribe or unsubscribe frame, or one the
\* server does not understand, and the frame is noted.
Observed ==
    /\ lastMessage = NoMessage
    /\ \E c \in DOMAIN wsState : \E raw \in RawMessages \ {"{type:requestUpdate}"} :
           OnMessage(c, raw) /\ lastMessage' = [ws |-> c, raw |-> raw]
    /\ UNCHANGED <<clientVars, timerVars, listingVars>>

Forgot ==
    /\ lastMessage # NoMessage
    /\ lastMessage' = NoMessage
    /\ UNCHANGED <<serverVars, clientVars, timerVars, listingVars>>

MessageNext ==
    \/ Connect
    \/ Observed
    \/ Forgot
    \/ DemandTick
    \/ Gathered
    \/ Closed
    \/ Drain

MessageSpec == Init /\ [][MessageNext]_vars

\* ------------------------------------------------------------- TimerSpec
\* The callback of an interval that is set runs.
TimerTick ==
    /\ activeIntervals # {}
    /\ inflight = <<>>
    /\ TimerFire
    /\ UNCHANGED besidesServer

StartedAgain ==
    /\ intervalsCreated < MaxIntervals
    /\ StartMonitoring
    /\ UNCHANGED <<clientVars, listingVars, lastMessage>>

Stopped == StopMonitoring /\ UNCHANGED <<clientVars, listingVars, lastMessage>>

\* The server, started again and stopped by its host.
TimerNext ==
    \/ StartedAgain
    \/ Stopped
    \/ TimerTick
    \/ Connect
    \/ Message
    \/ Gathered
    \/ Drain

TimerSpec == Init /\ [][TimerNext]_vars

\* ----------------------------------------------------------- ListingSpec
\* The pid columns, the lines and the outputs the listing is studied on.
PidTokens ==
    {<<"7">>, <<"1", "2">>, <<"0">>, <<"-", "3">>, <<"a", "b", "c">>, <<"7", "x">>}

Lines ==
    {[nparts |-> n, pid |-> pid, cpu |-> <<"9", "0">>, memory |-> <<"2">>, name |-> "node"] :
        n \in {3, 11}, pid \in PidTokens}

Bodies == UNION {[1..n -> Lines] : n \in 0..MaxLines}

Stdouts == {<<>>} \cup {<<SampleStdout[1]>> \o body : body \in Bodies}

\* The commands that ran: the first (firstOk - 1) failed and the next one, if
\* there is one, printed stdout. The commands after it do not run.
PosixOutcomes ==
    {[i \in DOMAIN Commands |-> IF i = firstOk THEN [ok |-> TRUE, stdout |-> stdout] ELSE Failed] :
        firstOk \in DOMAIN Commands, stdout \in Stdouts} \cup {[i \in DOMAIN Commands |-> Failed]}

WindowsOutcomes == {<<[ok |-> TRUE, stdout |-> stdout]>> : stdout \in Stdouts} \cup {<<Failed>>}

\* The processes that run while the commands are tried.
Running ==
    {[pid |-> <<"7">>, cpu |-> <<"9", "0">>, memory |-> <<"2">>, name |-> "node"],
     [pid |-> <<"1", "2">>, cpu |-> <<"1", "0">>, memory |-> <<"5">>, name |-> "bash"]}

\* What the command prints for them: the header, then one line each.
Output(command, processes) ==
    <<SampleStdout[1]>> \o
        [i \in DOMAIN processes |-> ReadLine(Printed(command, processes[i]), command)]

\* Each command fails, prints nothing, or prints the running processes.
UnixInputs ==
    {[function |-> "getUnixProcesses", processes |-> ps, does |-> d,
      outcomes |-> [i \in DOMAIN Commands |->
                       CASE d[i] = "fails" -> Failed
                         [] d[i] = "empty" -> [ok |-> TRUE, stdout |-> <<>>]
                         [] OTHER -> [ok |-> TRUE, stdout |-> Output(Commands[i], ps)]],
      limit |-> l, sortBy |-> "cpu"] :
        ps \in UNION {[1..n -> Running] : n \in 0..MaxLines},
        d \in [DOMAIN Commands -> {"fails", "empty", "prints"}],
        l \in 1..MaxLimit}

ListingInputs ==
    {[function |-> "getProcessList", platform |-> "linux", outcomes |-> o,
      limit |-> TickLimit, sortBy |-> k] : o \in PosixOutcomes, k \in {"cpu", "pid"}}
    \cup
    {[function |-> "getProcessList", platform |-> "win32", outcomes |-> o,
      limit |-> TickLimit, sortBy |-> k] : o \in WindowsOutcomes, k \in {"cpu", "pid"}}
    \cup UnixInputs

ListingInit ==
    /\ ServerInit
    /\ TimerInit
    /\ ClientInit
    /\ listingInput \in ListingInputs
    /\ listingResult = NotRun

\* getProcessList returns.
Listed(platform) ==
    /\ listingInput.function = "getProcessList"
    /\ listingInput.platform = platform
    /\ ~listingResult.returned
    /\ listingResult' =
           [returned |-> TRUE,
            value |-> GetProcessList(platform, listingInput.outcomes, listingInput.limit,
                                     listingInput.sortBy)]
    /\ UNCHANGED <<serverVars, clientVars, timerVars, lastMessage, listingInput>>

ListedPosix == Listed("linux")

ListedWindows == Listed("win32")

\* getUnixProcesses returns or throws.
ListedUnix ==
    /\ listingInput.function = "getUnixProcesses"
    /\ ~listingResult.returned
    /\ LET r == GetUnixProcesses(listingInput.outcomes, listingInput.limit,
                                 listingInput.sortBy)
       IN  listingResult' =
               [returned |-> TRUE, threw |-> r.threw, value |-> r.value,
                ran |-> Attempted(listingInput.outcomes, 1)]
    /\ UNCHANGED <<serverVars, clientVars, timerVars, lastMessage, listingInput>>

ListingNext ==
    \/ ListedPosix
    \/ ListedWindows
    \/ ListedUnix

ListingSpec == ListingInit /\ [][ListingNext]_vars

\* -------------------------------------------------------------- SortSpec
\* Parsed processes: the three of the example, on each platform (tasklist
\* gives no cpu).
Process(pid, cpu, memory, name) ==
    [pid |-> Num(pid), cpu |-> cpu, memory |-> memory, name |-> name]

PosixProcesses ==
    {Process(1, 90, 2, "sshd"), Process(2, 10, 5, "bash"), Process(3, 50, 2, "node")}

WindowsProcesses == {[p EXCEPT !.cpu = 0] : p \in PosixProcesses}

SortKeys == {"cpu", "memory", "name", "pid"}

Batches(processes) == UNION {[1..n -> processes] : n \in 0..MaxBatch}

SortInputs ==
    {[function |-> "sortAndSlice", platform |-> "linux", processes |-> b,
      limit |-> l, sortBy |-> k] : b \in Batches(PosixProcesses), l \in 0..MaxLimit, k \in SortKeys}
    \cup
    {[function |-> "sortAndSlice", platform |-> "win32", processes |-> b,
      limit |-> l, sortBy |-> k] : b \in Batches(WindowsProcesses), l \in 0..MaxLimit, k \in SortKeys}

SortInit ==
    /\ ServerInit
    /\ TimerInit
    /\ ClientInit
    /\ listingInput \in SortInputs
    /\ listingResult = NotRun

\* The sort and the slice that end parseUnixProcesses and
\* getWindowsProcesses.
Sorted(platform) ==
    /\ listingInput.function = "sortAndSlice"
    /\ listingInput.platform = platform
    /\ ~listingResult.returned
    /\ listingResult' =
           [returned |-> TRUE,
            value |-> SortAndSlice(listingInput.processes, listingInput.limit,
                                   listingInput.sortBy, platform)]
    /\ UNCHANGED <<serverVars, clientVars, timerVars, lastMessage, listingInput>>

SortedPosix == Sorted("linux")

SortedWindows == Sorted("win32")

SortNext ==
    \/ SortedPosix
    \/ SortedWindows

SortSpec == SortInit /\ [][SortNext]_vars

\* ------------------------------------------------------------ SampleSpec
MB == 1024 * 1024

\* Math.round(n / d) for d # 0: halves go up.
Round(n, d) ==
    IF d > 0 THEN (2 * n + d) \div (2 * d) ELSE (2 * (0 - n) - d) \div (2 * (0 - d))

\* The fields read from /proc/meminfo, in kB, and a file that cannot be
\* read.
Meminfo ==
    [readable |-> TRUE, MemAvailable |-> 2048, Buffers |-> 512, Cached |-> 1024,
     SwapTotal |-> 4096, SwapFree |-> 1024]

NoMeminfo ==
    [readable |-> FALSE, MemAvailable |-> 0, Buffers |-> 0, Cached |-> 0,
     SwapTotal |-> 0, SwapFree |-> 0]

\* getMemoryUsage: totalMemory and freeMemory are os.totalmem() and
\* os.freemem() in bytes; meminfo is the content of /proc/meminfo, which
\* readFile may fail to read. 0 / 0 is NaN.
GetMemoryUsage(totalMemory, freeMemory, platform, meminfo) ==
    LET usedMemory == totalMemory - freeMemory
        memInfo == [total |-> Round(totalMemory, MB),
                    free |-> Round(freeMemory, MB),
                    used |-> Round(usedMemory, MB),
                    percentage |-> IF totalMemory = 0 THEN NaN
                                   ELSE Num(Round(usedMemory * 100, totalMemory))]
    IN  IF platform = "linux" /\ meminfo.readable
        THEN [extended |-> TRUE, memInfo |-> memInfo,
              available |-> Round(meminfo.MemAvailable, 1024),
              buffers |-> Round(meminfo.Buffers, 1024),
              cached |-> Round(meminfo.Cached, 1024),
              swapTotal |-> Round(meminfo.SwapTotal, 1024),
              swapFree |-> Round(meminfo.SwapFree, 1024),
              swapUsed |-> Round(meminfo.SwapTotal, 1024) - Round(meminfo.SwapFree, 1024)]
        ELSE [extended |-> FALSE, memInfo |-> memInfo]

\* Object.values(cpu.times).reduce((a, b) => a + b, 0)
Total(times) == times.user + times.nice + times.sys + times.idle + times.irq

\* The loop over the cores: totalIdle and totalTick.
RECURSIVE SumOver(_, _, _)
SumOver(cpus1, cpus2, i) ==
    IF i > Len(cpus1) THEN [idle |-> 0, tick |-> 0]
    ELSE LET rest == SumOver(cpus1, cpus2, i + 1)
         IN  [idle |-> (cpus2[i].idle - cpus1[i].idle) + rest.idle,
              tick |-> (Total(cpus2[i]) - Total(cpus1[i])) + rest.tick]

\* Math.max(0, Math.min(100, usage)) of a number that is not NaN.
Clamp(usage) == IF usage < 0 THEN 0 ELSE IF usage > 100 THEN 100 ELSE usage

\* getCPUPercent on the two readings of os.cpus(), 100 ms apart. 0 / 0 is
\* NaN, which Math.round, the subtraction, Math.min and Math.max all pass
\* on; x / 0 is an infinity, which the clamp brings to 0 or to 100.
GetCPUPercent(cpus1, cpus2) ==
    LET totalIdle == SumOver(cpus1, cpus2, 1).idle
        totalTick == SumOver(cpus1, cpus2, 1).tick
    IN  IF totalTick = 0
        THEN IF totalIdle = 0 THEN NaN
             ELSE IF totalIdle > 0 THEN Num(0) ELSE Num(100)
        ELSE Num(Clamp(100 - Round(totalIdle * 100, totalTick)))

\* getCPUUsage: the sample with its core count and its usage.
GetCPUUsage(cpus1, cpus2) ==
    [cores |-> Len(cpus1), usage |-> GetCPUPercent(cpus1, cpus2)]

\* The byte counters of the OS, in quarters of a megabyte.
ByteCounts == {k * (MB \div 4) : k \in 0..MaxQuarters}

MemoryInputs ==
    {[function |-> "getMemoryUsage", totalMemory |-> t, freeMemory |-> f,
      platform |-> pm[1], meminfo |-> pm[2]] :
        t \in ByteCounts, f \in ByteCounts,
        pm \in {<<"linux", Meminfo>>, <<"linux", NoMeminfo>>, <<"win32", NoMeminfo>>}}

\* The first reading of a core, and the readings 100 ms later: idle and
\* user time each advance by 0..MaxTicks.
Reading == [user |-> 50, nice |-> 0, sys |-> 0, idle |-> 50, irq |-> 0]

Advances ==
    {[user |-> Reading.user + u, nice |-> 0, sys |-> 0, idle |-> Reading.idle + d, irq |-> 0] :
        u \in 0..MaxTicks, d \in 0..MaxTicks}

CpuInputs ==
    {[function |-> "getCPUUsage", cpus1 |-> [i \in 1..n |-> Reading], cpus2 |-> c2] :
        n \in 0..MaxCores, c2 \in UNION {[1..m -> Advances] : m \in 0..MaxCores}}

SampleInit ==
    /\ ServerInit
    /\ TimerInit
    /\ ClientInit
    /\ listingInput \in
           {i \in MemoryInputs : i.freeMemory <= i.totalMemory} \cup
           {i \in CpuInputs : Len(i.cpus1) = Len(i.cpus2)}
    /\ listingResult = NotRun

MemorySampled ==
    /\ listingInput.function = "getMemoryUsage"
    /\ ~listingResult.returned
    /\ listingResult' =
           [returned |-> TRUE,
            value |-> GetMemoryUsage(listingInput.totalMemory, listingInput.freeMemory,
                                     listingInput.platform, listingInput.meminfo)]
    /\ UNCHANGED <<serverVars, clientVars, timerVars, lastMessage, listingInput>>

CpuSampled ==
    /\ listingInput.function = "getCPUUsage"
    /\ ~listingResult.returned
    /\ listingResult' =
           [returned |-> TRUE,
            value |-> GetCPUUsage(listingInput.cpus1, listingInput.cpus2)]
    /\ UNCHANGED <<serverVars, clientVars, timerVars, lastMessage, listingInput>>

SampleNext ==
    \/ MemorySampled
    \/ CpuSampled

SampleSpec == SampleInit /\ [][SampleNext]_vars

\* ------------------------------------------------------------ ClientSpec
Mounted == Mount /\ UNCHANGED besidesClient

Reconnected == Len(sockets) < MaxClientSockets /\ Reconnect /\ UNCHANGED besidesClient

Retried ==
    /\ Len(sockets) < MaxClientSockets
    /\ \E t \in pendingTimers : RetryTimerFire(t)
    /\ UNCHANGED besidesClient

\* The retry timer fires in a run where no caller acts.
RetriedAlone ==
    /\ Len(sockets) < MaxSockets
    /\ \E t \in pendingTimers : RetryTimerFire(t)
    /\ UNCHANGED besidesClient

Opened == (\E s \in DOMAIN sockets : SocketOpened(s)) /\ UNCHANGED besidesClient

Lost == (\E s \in DOMAIN sockets : SocketClosed(s)) /\ UNCHANGED besidesClient

Unmounted == Unmount /\ UNCHANGED besidesClient

Requested == RequestUpdate /\ UNCHANGED besidesClient

ClientNext ==
    \/ Mounted
    \/ Reconnected
    \/ Retried
    \/ Opened
    \/ Lost
    \/ Unmounted
    \/ Requested

ClientSpec == Init /\ [][ClientNext]_vars

RetryNext ==
    \/ Mounted
    \/ RetriedAlone
    \/ Opened
    \/ Lost

RetrySpec == Init /\ [][RetryNext]_vars

\* ----------------------------------------------------------- SessionSpec
SessionRetried ==
    /\ Len(sockets) < MaxSessionSockets
    /\ \E t \in pendingTimers : RetryTimerFire(t)
    /\ UNCHANGED besidesClient

\* The server accepts the connection of a socket of the hook.
Accepted ==
    /\ \E s \in DOMAIN sockets :
           sockets[s].readyState = CONNECTING /\ Connection(s)
    /\ UNCHANGED besidesServer

\* The handshake completes on the client side.
SessionOpened ==
    /\ \E s \in DOMAIN sockets : s \in DOMAIN wsState /\ SocketOpened(s)
    /\ UNCHANGED besidesClient

\* The server receives the next frame the hook sent on a socket.
Delivered ==
    \E s \in DOMAIN sockets :
        /\ sockets[s].received < Len(sockets[s].sent)
        /\ OnMessage(s, sockets[s].sent[sockets[s].received + 1])
        /\ sockets' = [sockets EXCEPT ![s].received = @ + 1]
        /\ UNCHANGED <<wsRef, reconnectTimeoutRef, pendingTimers, reconnectAttempts,
                       connected, mounted, timerVars, listingVars, lastMessage>>

\* The hook, mounted and unmounted by its component and otherwise left to the
\* network, connected to the server. The server learns that a connection has
\* ended by its close event.
SessionNext ==
    \/ Mounted
    \/ SessionRetried
    \/ Accepted
    \/ SessionOpened
    \/ Lost
    \/ Unmounted
    \/ Delivered
    \/ Tick
    \/ Gathered
    \/ Closed
    \/ Drain

SessionSpec == Init /\ [][SessionNext]_vars

\* ================================================================ claims
Open(c) == wsState[c].readyState = OPEN

Registered == Range(connectedClients)

\* ---------------------------------------------------------------------
\* C1: a firing of the broadcast timer at which no registered channel is
\* subscribed (the registry may hold unsubscribed channels) invokes no
\* collector, sends no message and suspends no broadcast.
C1_IdleTickDoesNothing ==
    /\ (invoked.by = "tick" /\ SubscribedClients = <<>>) =>
           (invoked = IdleTick /\ lastPush = NoPush /\ lastDirect = NoDirect)
    /\ \A i \in DOMAIN inflight : inflight[i].subscribedClients # <<>>

\* The timer has just fired with connected channels, none subscribed.
C1_Witness ==
    /\ invoked = IdleTick
    /\ connectedClients # <<>>
    /\ SubscribedClients = <<>>

\* ---------------------------------------------------------------------
\* C2 (as claimed): a broadcast sends its systemUpdate only to channels whose
\* most recently handled subscription intent is subscribe.
C2_PushOnlyToSubscribed ==
    lastPush.done => \A c \in Receivers(lastPush.sent) : wsState[c].subscribed

\* ---------------------------------------------------------------------
\* C3 (as claimed): the channels a broadcast sends to are exactly the
\* channels registered, open and subscribed at the moment of the push. The
\* channels whose send threw count as sent to; they were registered until
\* the push removed them.
C3_PushToCurrentSubscribers ==
    lastPush.done =>
        Receivers(lastPush.sent) \cup lastPush.failed =
            {c \in Registered \cup lastPush.failed : Open(c) /\ wsState[c].subscribed}

\* ---------------------------------------------------------------------
\* C4: a timer firing that starts a broadcast invokes each collector exactly
\* once, whatever the number of subscribed channels; completing the
\* broadcast invokes none; and all channels of one push receive the same
\* snapshot.
C4_OneSnapshotPerTick ==
    /\ invoked.by = "tick" =>
           invoked = (IF SubscribedClients = <<>> THEN IdleTick
                      ELSE [by |-> "tick", cpu |-> 1, memory |-> 1, processes |-> 1])
    /\ lastPush.done =>
           /\ invoked = NoCalls
           /\ \A i, j \in DOMAIN lastPush.sent : lastPush.sent[i].data = lastPush.sent[j].data

\* One push has reached two channels.
C4_Witness == lastPush.done /\ Cardinality(Receivers(lastPush.sent)) >= 2

\* ---------------------------------------------------------------------
\* C5: when the send to a channel throws during a push, the channel is
\* removed from the registry and every other captured channel that is open
\* still receives the snapshot, wherever the failing channel stands in the
\* iteration.
C5_FailedSendIsLocal ==
    lastPush.done =>
        /\ \A c \in Range(lastPush.clients) :
               Open(c) => (c \in Receivers(lastPush.sent) <=> c \notin lastPush.failed)
        /\ lastPush.failed \cap Registered = {}
        /\ Receivers(lastPush.sent) \cap lastPush.failed = {}

\* A send threw and a channel later in the iteration received the snapshot.
C5_Witness ==
    /\ lastPush.done
    /\ \E i, j \in DOMAIN lastPush.clients :
           /\ i < j
           /\ lastPush.clients[i] \in lastPush.failed
           /\ lastPush.clients[j] \in Receivers(lastPush.sent)

\* ---------------------------------------------------------------------
\* C6 (as claimed): after the teardown no retry timer is pending.
C6_NoTimerAfterTeardown == mounted = "unmounted" => pendingTimers = {}

\* ---------------------------------------------------------------------
\* C7 (as claimed): at most one socket of the hook is connecting or open.
Live == {s \in DOMAIN sockets : sockets[s].readyState \in {CONNECTING, OPEN}}

C7_SingleLiveSocket == Cardinality(Live) <= 1

\* ---------------------------------------------------------------------
\* C8. The sockets after the last one that opened are the retry attempts
\* that follow its loss, numbered from 1.
LastOpened ==
    IF \E s \in DOMAIN sockets : sockets[s].opened
    THEN CHOOSE s \in DOMAIN sockets :
             sockets[s].opened /\ \A r \in DOMAIN sockets : sockets[r].opened => r <= s
    ELSE 0

ClosedUnopened(s) == sockets[s].readyState = CLOSED /\ ~sockets[s].opened

\* The close of socket s scheduled a new attempt: its timer is pending, or
\* has fired and created the next socket.
Scheduled(s) == s \in pendingTimers \/ Len(sockets) > s

\* C8 (as claimed): after a loss, the close of each of the first five retry
\* attempts schedules a new attempt.
C8_FiveRetryClosesSchedule ==
    \A s \in DOMAIN sockets :
        (LastOpened > 0 /\ s > LastOpened /\ s - LastOpened <= maxReconnectAttempts
            /\ ClosedUnopened(s)) => Scheduled(s)

\* C8 (amended): after a loss, the loss and the closes of retry attempts 1 to
\* 4 each schedule exactly one new attempt; the close of the fifth retry
\* attempt schedules none, and from then on the hook is disconnected with no
\* timer pending and no further socket.
C8_FiveRetriesThenGiveUp ==
    LastOpened > 0 =>
        /\ Len(sockets) - LastOpened <= maxReconnectAttempts
        /\ pendingTimers \subseteq {Len(sockets)}
        /\ \A s \in DOMAIN sockets :
               (s >= LastOpened /\ sockets[s].readyState = CLOSED) =>
                   IF s - LastOpened < maxReconnectAttempts
                   THEN Scheduled(s) /\ reconnectAttempts >= s - LastOpened + 1
                   ELSE /\ ~Scheduled(s)
                        /\ pendingTimers = {}
                        /\ ~connected
                        /\ Live = {}
                        /\ reconnectAttempts = maxReconnectAttempts

\* A connection was lost and the fifth retry attempt has closed.
C8_Witness ==
    /\ LastOpened > 0
    /\ Len(sockets) = LastOpened + maxReconnectAttempts
    /\ ClosedUnopened(Len(sockets))

\* ---------------------------------------------------------------------
\* C9: a socket that opened was sent exactly one subscribe, first of all its
\* frames, and one that did not open was sent nothing; a channel whose close
\* the server has handled is not in the registry; the subscribed flag of a
\* channel is that of the last subscription intent the server handled on it
\* (false when none: a new channel inherits nothing); and a broadcast that
\* starts captures every registered subscribed channel.
Subscribes(frames) == SelectSeq(frames, LAMBDA f : f = "{type:subscribe}")

Intents(frames) ==
    SelectSeq(frames, LAMBDA f : f \in {"{type:subscribe}", "{type:unsubscribe}"})

C9_ResubscribeOnOpen ==
    /\ \A s \in DOMAIN sockets :
           IF sockets[s].opened
           THEN /\ sockets[s].sent # <<>>
                /\ sockets[s].sent[1] = "{type:subscribe}"
                /\ Len(Subscribes(sockets[s].sent)) = 1
           ELSE sockets[s].sent = <<>>
    /\ \A s \in DOMAIN wsState :
           /\ wsState[s].readyState = CLOSED => s \notin Registered
           /\ LET handled == Intents(SubSeq(sockets[s].sent, 1, sockets[s].received))
              IN  wsState[s].subscribed <=>
                      (handled # <<>> /\ handled[Len(handled)] = "{type:subscribe}")
    /\ (invoked.by = "tick" /\ invoked.cpu = 1) =>
           inflight[Len(inflight)].subscribedClients = SubscribedClients

\* A socket was dropped, its channel left the registry, and the socket that
\* replaced it is subscribed and has just been pushed a snapshot.
C9_Witness ==
    \E old, new \in DOMAIN wsState :
        /\ old < new
        /\ sockets[old].opened
        /\ sockets[old].readyState = CLOSED
        /\ wsState[old].readyState = CLOSED
        /\ sockets[new].readyState = OPEN
        /\ wsState[new].subscribed
        /\ lastPush.done
        /\ new \in Receivers(lastPush.sent)

\* ---------------------------------------------------------------------
\* C10 (as claimed): a push never sends a channel the snapshot of a tick
\* after the channel was sent the snapshot of a later tick.
C10_PushesInTickOrder ==
    lastPush.done => lastPush.overtaken \cap Receivers(lastPush.sent) = {}

\* ---------------------------------------------------------------------
\* C11 (as claimed): in every snapshot pushed, cpu is null exactly when
\* errors holds the failure of the CPU collector, memory is null exactly
\* when errors holds the failure of the memory collector, and errors holds
\* one string per failed collector, the process collector included (it has
\* failed when it returns its fallback list).
FailedCollectors(data) ==
    (IF data.cpu = Null THEN 1 ELSE 0) + (IF data.memory = Null THEN 1 ELSE 0)
        + (IF data.processes = FallbackList THEN 1 ELSE 0)

C11_OneErrorPerFailedCollector ==
    lastPush.done =>
        \A i \in DOMAIN lastPush.sent :
            LET data == lastPush.sent[i].data
            IN  /\ data.cpu = Null <=> "cpu failed" \in Range(data.errors)
                /\ data.memory = Null <=> "memory failed" \in Range(data.errors)
                /\ Len(data.errors) = FailedCollectors(data)

\* ---------------------------------------------------------------------
\* C12 (as claimed): a snapshot whose processes are the fallback list
\* records the failure of the listing in its errors.
C12_FallbackRecordsError ==
    lastPush.done =>
        \A i \in DOMAIN lastPush.sent :
            LET data == lastPush.sent[i].data
            IN  data.processes = FallbackList =>
                    \E e \in DOMAIN data.errors :
                        data.errors[e] \notin {"cpu failed", "memory failed"}

\* ---------------------------------------------------------------------
\* C13 (as claimed): every systemUpdate sent, by a push or on demand, has an
\* errors list, which is not empty when cpu or memory is null.
SnapshotShaped(data) ==
    /\ "errors" \in DOMAIN data
    /\ (data.cpu = Null \/ data.memory = Null) => data.errors # <<>>

C13_EveryUpdateHasErrors ==
    /\ lastPush.done => \A i \in DOMAIN lastPush.sent : SnapshotShaped(lastPush.sent[i].data)
    /\ lastDirect.sent => SnapshotShaped(lastDirect.data)

\* ---------------------------------------------------------------------
\* C14 (as claimed): every on-demand update that completes sends its
\* systemUpdate to the requesting channel.
C14_RequestAlwaysAnswered == lastDirect.ws # 0 => lastDirect.sent

\* C14 (amended): handling a requestUpdate invokes the cpu and memory
\* collectors once each and not the process collector, and sends nothing
\* yet; when the collectors have settled, one systemUpdate with cpu and
\* memory and no process list is sent to the requesting channel, subscribed
\* or not, exactly when the channel is still open and the send does not
\* throw; no other channel is sent anything.
C14_OnDemandUpdate ==
    /\ invoked.by = "requestUpdate" =>
           /\ invoked.cpu = 1 /\ invoked.memory = 1 /\ invoked.processes = 0
           /\ lastPush = NoPush
           /\ lastDirect = NoDirect
    /\ lastDirect.ws # 0 =>
           /\ invoked = NoCalls
           /\ lastPush = NoPush
           /\ lastDirect.sent <=> (Open(lastDirect.ws) /\ ~lastDirect.threw)
           /\ DOMAIN lastDirect.data = {"type", "cpu", "memory"}
           /\ lastDirect.data.type = "systemUpdate"

\* A channel that is not subscribed was sent the update it asked for, while
\* another channel is connected.
C14_Witness ==
    /\ lastDirect.sent
    /\ ~wsState[lastDirect.ws].subscribed
    /\ Cardinality(Registered) >= 2

\* ---------------------------------------------------------------------
\* C15: every channel in the registry has connected and has had no close or
\* error event handled; a channel whose close or error event has been
\* handled is not in the registry, and no push sends it a snapshot.
C15_EndedChannelsAreOut ==
    /\ Registered \subseteq DOMAIN wsState
    /\ \A c \in Registered : ~wsState[c].ended
    /\ lastPush.done => \A c \in Receivers(lastPush.sent) : ~wsState[c].ended

\* A push has completed for a broadcast that had captured a channel whose
\* close or error event was handled meanwhile, and reached another channel.
C15_Witness ==
    /\ lastPush.done
    /\ \E c \in Range(lastPush.clients) : wsState[c].ended
    /\ lastPush.sent # <<>>

\* ---------------------------------------------------------------------
\* C16 (as claimed): a broadcast, from the firing of the timer to the end of
\* its push, leaves the registry unchanged.
C16_TickLeavesRegistry ==
    [][(invoked'.by = "tick" \/ lastPush'.done) => connectedClients' = connectedClients]_vars

\* C16 (amended): the firing of the timer leaves the registry unchanged, and
\* a push removes from it exactly the channels whose send threw; apart from
\* that the registry changes only by the connection of a new channel, added
\* last, or by the close or error event of a channel, which removes it.
C16_RegistryChanges ==
    [][/\ invoked'.by = "tick" => connectedClients' = connectedClients
       /\ lastPush'.done =>
              connectedClients' = SelectSeq(connectedClients, LAMBDA c : c \notin lastPush'.failed)
       /\ connectedClients' # connectedClients =>
              \/ lastPush'.done
              \/ \E c \in DOMAIN wsState' \ DOMAIN wsState :
                     connectedClients' = Append(connectedClients, c)
              \/ \E c \in DOMAIN wsState :
                     /\ wsState'[c].ended /\ ~wsState[c].ended
                     /\ connectedClients' = Remove(connectedClients, c)]_vars

\* A push has removed a channel whose send threw and left another in the
\* registry.
C16_Witness ==
    /\ lastPush.done
    /\ lastPush.failed # {}
    /\ Registered # {}
    /\ Registered \cap lastPush.failed = {}

\* ---------------------------------------------------------------------
\* C17: at most one interval is set at any time, the one monitoringInterval
\* holds, also after startMonitoring is called again; after stopMonitoring
\* none is set; a stopMonitoring that finds none changes nothing; and the
\* callback runs only while an interval is set.
C17_SingleInterval ==
    /\ [](/\ Cardinality(activeIntervals) <= 1
          /\ activeIntervals = {monitoringInterval} \ {0}
          /\ invoked.by = "stopMonitoring" => activeIntervals = {}
          /\ invoked.by = "tick" => activeIntervals # {})
    /\ [][(invoked'.by = "stopMonitoring" /\ monitoringInterval = 0) =>
              UNCHANGED <<timerVars, connectedClients, wsState, inflight, pendingUpdates>>]_vars

\* startMonitoring has been called again and stopMonitoring has just run,
\* leaving no interval set.
C17_Witness ==
    /\ invoked.by = "stopMonitoring"
    /\ intervalsCreated >= 2
    /\ activeIntervals = {}

\* ---------------------------------------------------------------------
\* C18: every channel was sent exactly one connected message, and it is the
\* first message the channel was sent: no systemUpdate, pushed or on
\* demand, came before it.
C18_ConnectedFirstAndOnce ==
    \A c \in DOMAIN wsState : wsState[c].greeted = 1 /\ wsState[c].first = "connected"

\* A channel has just been pushed a snapshot and another has connected
\* since the broadcast started.
C18_Witness ==
    /\ lastPush.done
    /\ lastPush.sent # <<>>
    /\ DOMAIN wsState \ Range(lastPush.clients) # {}

\* ---------------------------------------------------------------------
\* C19 (as claimed): every record getProcessList returns, on the POSIX and
\* on the Windows path, has a pid that is a positive integer.
C19_PidsArePositive ==
    (listingInput.function = "getProcessList" /\ listingResult.returned) =>
        \A i \in DOMAIN listingResult.value :
            ~listingResult.value[i].pid.nan /\ listingResult.value[i].pid.value > 0

\* ---------------------------------------------------------------------
\* C20: for parsed processes with valid pids, each of the keys cpu, memory,
\* name and pid and each limit >= 0, the list returned has min(limit, n)
\* records, is in the order of the key (cpu and memory descending, name and
\* pid ascending), is made of records of the complete list, and no record
\* left out comes strictly before a record kept: it is the first limit
\* records of the complete list sorted by the key.
MayPrecede(a, b, key) ==
    CASE key = "cpu"    -> a.cpu >= b.cpu
      [] key = "memory" -> a.memory >= b.memory
      [] key = "name"   -> LocaleRank(a.name) <= LocaleRank(b.name)
      [] key = "pid"    -> a.pid.value <= b.pid.value

IsSortedPrefix(out, in, key) ==
    /\ \A i, j \in DOMAIN out : i < j => MayPrecede(out[i], out[j], key)
    /\ \E f \in [DOMAIN out -> DOMAIN in] :
           /\ \A i, j \in DOMAIN out : i # j => f[i] # f[j]
           /\ \A i \in DOMAIN out : out[i] = in[f[i]]
           /\ \A q \in DOMAIN in \ {f[i] : i \in DOMAIN out} :
                  \A i \in DOMAIN out : MayPrecede(out[i], in[q], key)

C20_SortThenTruncate ==
    (listingInput.function = "sortAndSlice" /\ listingResult.returned) =>
        /\ Len(listingResult.value) <= listingInput.limit
        /\ Len(listingResult.value) =
               (IF listingInput.limit < Len(listingInput.processes)
                THEN listingInput.limit ELSE Len(listingInput.processes))
        /\ IsSortedPrefix(listingResult.value, listingInput.processes, listingInput.sortBy)

\* The example: cpu 90, 10, 50 for pids 1, 2, 3 with limit 2 and sort cpu
\* gives pids 1 then 3.
C20_Witness ==
    /\ listingInput.function = "sortAndSlice"
    /\ listingInput.platform = "linux"
    /\ listingInput.processes =
           <<Process(1, 90, 2, "sshd"), Process(2, 10, 5, "bash"), Process(3, 50, 2, "node")>>
    /\ listingInput.limit = 2
    /\ listingInput.sortBy = "cpu"
    /\ listingResult.returned
    /\ [i \in DOMAIN listingResult.value |-> listingResult.value[i].pid.value] = <<1, 3>>

\* ---------------------------------------------------------------------
\* C21 (as claimed): the list getProcessList returns is in the order of the
\* requested key on every platform path: cpu non-increasing for cpu (and
\* for a key that is not recognised), memory non-increasing for memory,
\* name non-decreasing for name, pid non-decreasing for pid.
InKeyOrder(a, b, key) ==
    CASE key = "memory" -> a.memory >= b.memory
      [] key = "name"   -> LocaleRank(a.name) <= LocaleRank(b.name)
      [] key = "pid"    -> ~a.pid.nan /\ ~b.pid.nan /\ a.pid.value <= b.pid.value
      [] OTHER          -> a.cpu >= b.cpu

C21_OrderedByKey ==
    (listingInput.function = "getProcessList" /\ listingResult.returned) =>
        \A i, j \in DOMAIN listingResult.value :
            i < j => InKeyOrder(listingResult.value[i], listingResult.value[j],
                                listingInput.sortBy)

\* ---------------------------------------------------------------------
\* C22 (as claimed): getUnixProcesses runs its candidate commands in the
\* listed order and none after the first that succeeds, returns the parse of
\* that command's output by the parser of that command, and throws only
\* when every candidate has failed.
Succeeded(outcomes) == {i \in DOMAIN outcomes : outcomes[i].ok}

First(S) == CHOOSE i \in S : \A j \in S : i <= j

C22_FirstSuccessWins ==
    (listingInput.function = "getUnixProcesses" /\ listingResult.returned) =>
        LET ok == Succeeded(listingInput.outcomes)
        IN  /\ listingResult.ran = SubSeq(Commands, 1, Len(listingResult.ran))
            /\ listingResult.threw <=> ok = {}
            /\ ok = {} => Len(listingResult.ran) = Len(Commands)
            /\ ok # {} =>
                   /\ Len(listingResult.ran) = First(ok)
                   /\ listingResult.value =
                          ParseUnixProcesses(listingInput.outcomes[First(ok)].stdout,
                                             listingInput.limit, listingInput.sortBy,
                                             Commands[First(ok)])

\* ---------------------------------------------------------------------
\* C30 (as claimed): whichever of the four commands is the one that
\* succeeds, when its output lists at least one process with a valid pid
\* and limit >= 1, the list getUnixProcesses returns is not empty.
C30_ListedProcessesReturned ==
    (/\ listingInput.function = "getUnixProcesses"
     /\ listingResult.returned
     /\ Succeeded(listingInput.outcomes) # {}
     /\ listingInput.does[First(Succeeded(listingInput.outcomes))] = "prints"
     /\ listingInput.processes # <<>>
     /\ listingInput.limit >= 1) =>
        ~listingResult.threw /\ listingResult.value # <<>>

\* ---------------------------------------------------------------------
\* C23 (as claimed): a line with fewer parts than its format needs gives
\* no record and no error, and the other lines still give theirs: when a
\* command has printed its output, the list returned (no truncation, the
\* limit is above the number of lines) has as many records as the output
\* has lines with enough parts and a valid pid, a positive integer.
ValidPid(token) == ~ParseInt(token).nan /\ ParseInt(token).value > 0

Needed(platform, command) ==
    IF platform = "win32" THEN 5
    ELSE IF command \in {Commands[1], Commands[2]} THEN 11 ELSE 6

C23_RecordPerWellFormedLine ==
    (/\ listingInput.function = "getProcessList"
     /\ listingResult.returned
     /\ Succeeded(listingInput.outcomes) # {}
     /\ listingInput.outcomes[First(Succeeded(listingInput.outcomes))].stdout # <<>>) =>
        LET used == First(Succeeded(listingInput.outcomes))
            body == Tail(listingInput.outcomes[used].stdout)
            needed == Needed(listingInput.platform, Commands[used])
        IN  Len(listingResult.value) =
                Cardinality({i \in DOMAIN body :
                                body[i].nparts >= needed /\ ValidPid(body[i].pid)})

\* ---------------------------------------------------------------------
\* C24 (as claimed): for byte counters 0 <= free <= total, the megabyte
\* fields of the sample getMemoryUsage returns satisfy used = total - free.
C24_UsedIsTotalMinusFree ==
    (listingInput.function = "getMemoryUsage" /\ listingResult.returned) =>
        listingResult.value.memInfo.used =
            listingResult.value.memInfo.total - listingResult.value.memInfo.free

\* ---------------------------------------------------------------------
\* C25 (as claimed): for every pair of readings of the cores, a machine
\* with no core and readings without a tick between them included, the
\* usage of the CPU sample is an integer between 0 and 100.
C25_UsageInRange ==
    (listingInput.function = "getCPUUsage" /\ listingResult.returned) =>
        /\ ~listingResult.value.usage.nan
        /\ listingResult.value.usage.value \in 0..100

\* ---------------------------------------------------------------------
\* C26 (as claimed): collections driven by the timer never overlap: at most
\* one broadcast is waiting for its collectors at any time.
C26_OneCollectionInFlight == Len(inflight) <= 1

\* ---------------------------------------------------------------------
\* C27: the retry counter is always within 0..5; it grows only by one, in
\* the close event of a socket that schedules a retry, and every close that
\* schedules a retry adds one; it falls only to 0, in the open event of a
\* socket, and every open leaves it at 0. So no more than five attempts in
\* a row fail after an open (after the first attempt, when none has
\* opened), and a connection that opened and was lost has five retries
\* again.
Closes(s) == sockets[s].readyState # CLOSED /\ sockets'[s].readyState = CLOSED

Opens(s) == sockets[s].readyState = CONNECTING /\ sockets'[s].readyState = OPEN

RetryCounterStep ==
    /\ reconnectAttempts' > reconnectAttempts =>
           /\ reconnectAttempts' = reconnectAttempts + 1
           /\ \E s \in DOMAIN sockets : Closes(s) /\ pendingTimers' = pendingTimers \cup {s}
                                        /\ s \notin pendingTimers
    /\ reconnectAttempts' < reconnectAttempts =>
           /\ reconnectAttempts' = 0
           /\ \E s \in DOMAIN sockets : Opens(s)
    /\ (\E s \in DOMAIN sockets : Opens(s)) => reconnectAttempts' = 0
    /\ \A s \in DOMAIN sockets :
           Closes(s) =>
               IF reconnectAttempts < maxReconnectAttempts
               THEN reconnectAttempts' = reconnectAttempts + 1 /\ s \in pendingTimers'
               ELSE reconnectAttempts' = reconnectAttempts /\ pendingTimers' = pendingTimers

C27_RetryCounter ==
    /\ [](/\ reconnectAttempts \in 0..maxReconnectAttempts
          /\ Len(sockets) - LastOpened <=
                 maxReconnectAttempts + (IF LastOpened = 0 THEN 1 ELSE 0))
    /\ [][RetryCounterStep]_vars

\* An attempt failed and used a retry before a connection opened; that
\* connection was lost and its five retries have all been scheduled.
C27_Witness ==
    /\ LastOpened > 1
    /\ ClosedUnopened(1)
    /\ sockets[LastOpened].readyState = CLOSED
    /\ reconnectAttempts = maxReconnectAttempts
    /\ Len(sockets) = LastOpened + maxReconnectAttempts

\* ---------------------------------------------------------------------
\* C28: a client message that is not valid JSON, is not an object or has an
\* unknown type leaves the registry, the state of every channel (its
\* subscribed flag, what it was sent), the broadcasts in flight, the pending
\* updates and the timer unchanged, invokes no collector and sends nothing,
\* and its channel stays open; subscribe and unsubscribe set the flag of the
\* sending channel to true and to false whatever it was, and change nothing
\* else.
Unhandled == {"not json", "null", "5", "{type:ping}"}

HandledQuietly ==
    /\ connectedClients' = connectedClients
    /\ inflight' = inflight
    /\ pendingUpdates' = pendingUpdates
    /\ timerVars' = timerVars
    /\ invoked' = NoCalls /\ lastPush' = NoPush /\ lastDirect' = NoDirect
    /\ wsState'[lastMessage'.ws].readyState = OPEN

C28_MessageFrame ==
    [][(lastMessage = NoMessage /\ lastMessage' # NoMessage) =>
          /\ HandledQuietly
          /\ lastMessage'.raw \in Unhandled => wsState' = wsState
          /\ lastMessage'.raw = "{type:subscribe}" =>
                 /\ wsState' = [wsState EXCEPT ![lastMessage'.ws].subscribed = TRUE]
                 /\ wsState[lastMessage'.ws].subscribed => wsState' = wsState
          /\ lastMessage'.raw = "{type:unsubscribe}" =>
                 /\ wsState' = [wsState EXCEPT ![lastMessage'.ws].subscribed = FALSE]
                 /\ ~wsState[lastMessage'.ws].subscribed => wsState' = wsState]_vars

\* A frame that is not JSON was handled on a subscribed channel while
\* another channel was not subscribed and a broadcast was in flight.
C28_Witness ==
    /\ lastMessage.raw = "not json"
    /\ wsState[lastMessage.ws].subscribed
    /\ \E d \in DOMAIN wsState : ~wsState[d].subscribed /\ wsState[d].readyState = OPEN
    /\ inflight # <<>>

\* ---------------------------------------------------------------------
\* C29 (as claimed): whenever the connected flag of the hook is true, the
\* socket wsRef refers to is open (so requestUpdate sends); whenever it is
\* false, no socket the hook created is open.
C29_ConnectedIffOpen ==
    /\ connected => (wsRef # 0 /\ sockets[wsRef].readyState = OPEN)
    /\ ~connected => \A s \in DOMAIN sockets : sockets[s].readyState # OPEN

====
